---- MODULE Spec2Model ----
(***************************************************************************)
(* Bollinger-band mean-reversion backtest of stat_arb (backtest.py,        *)
(* signals.py).                                                            *)
(*                                                                         *)
(* A spread is a sequence of floats, each an integer or NaN (the record     *)
(* [nan, v]); its timestamps are the positions 1..Len(spread) (a strictly  *)
(* increasing index without duplicates).                                   *)
(* Rolling statistics are kept exact: a band value is the real number      *)
(* (a + b*sqrt(d)) / w held as the record [nan, a, b, d, w], so the        *)
(* inclusive comparisons of the engine are decided exactly, and the        *)
(* warm-up value NaN is its own case (nan = TRUE).                         *)
(*                                                                         *)
(* The module also holds load_pair_data and _convert_currency (data.py)    *)
(* and estimate_hedge_ratio (hedge.py), each with variables and a          *)
(* specification of its own; the variables of the functions that are not   *)
(* running stay at their idle values.                                      *)
(***************************************************************************)
EXTENDS Integers, Sequences, FiniteSets, TLC

VARIABLES
    spread,         \* input: the spread series (values by timestamp 1..n)
    window,         \* input: lookback window of the running backtest
    num_std,        \* input: band width k
    fee,            \* input: flat fee per trade
    pc,             \* "loop" | "runner" | "done" : the running function's position
    i,              \* number of timestamps the for loop has consumed
    position,       \* 0 flat, 1 long, -1 short
    entry_price,
    entry_time,
    equity,
    equity_values,
    trades,
    entries,        \* history: how many times a position was opened
    result,         \* the BacktestResult once returned (NoResult before)
    windows,        \* input of run_multi_window_backtest: the windows
    wi,             \* number of windows the runner's for loop has consumed
    results,        \* the runner's dict: window -> BacktestResult
    \* load_pair_data (data.py)
    ld,             \* input: the call's arguments and what the providers hold
    lpc,            \* "idle" | "fetch" | "legs" | "concat" | "convert" |
                    \* "return" | "done" | "failed"
    leg_idx,        \* number of legs the current for loop has consumed
    fx_cache,       \* the FX tickers whose series the cache holds
    series_dict,    \* the keys of series_dict, in insertion order
    fx_fetches,     \* history: the tickers given to fx_provider.fetch
    frame,          \* the DataFrame: its columns, its rows, its values
    lerr,           \* the exception load_pair_data ended on ("none" if none)
    \* _convert_currency (data.py)
    cv,             \* input: the call's arguments
    cpc,            \* "idle" | "parse" | "convert" | "done" | "failed"
    fx_pair_parsed, \* (fx_base, fx_quote) once parsed
    converted,      \* the series returned
    cerr,           \* the exception the call ended on ("none" if none)
    \* estimate_hedge_ratio (hedge.py)
    hg,             \* input: series_a, series_b, add_intercept
    hpc,            \* "idle" | "align" | "fit" | "done" | "failed"
    aligned,        \* the inner-joined, NaN-dropped pairs (y, x)
    hedge_result,   \* the HedgeRatioResult returned
    herr            \* the exception the call ended on ("none" if none)

backtestVars ==
    <<spread, window, num_std, fee, pc, i, position, entry_price,
      entry_time, equity, equity_values, trades, entries, result,
      windows, wi, results>>

loaderVars ==
    <<ld, lpc, leg_idx, fx_cache, series_dict, fx_fetches, frame, lerr>>

convertVars == <<cv, cpc, fx_pair_parsed, converted, cerr>>

hedgeVars == <<hg, hpc, aligned, hedge_result, herr>>

otherVars == <<loaderVars, convertVars, hedgeVars>>

vars == <<backtestVars, loaderVars, convertVars, hedgeVars>>

\* the value of an input or a local of a function that is not running
Unset == <<>>

LoaderIdle ==
    /\ ld = Unset /\ lpc = "idle" /\ leg_idx = 0 /\ fx_cache = {}
    /\ series_dict = <<>> /\ fx_fetches = <<>> /\ frame = Unset
    /\ lerr = "none"

ConvertIdle ==
    /\ cv = Unset /\ cpc = "idle" /\ fx_pair_parsed = Unset
    /\ converted = Unset /\ cerr = "none"

HedgeIdle ==
    /\ hg = Unset /\ hpc = "idle" /\ aligned = <<>>
    /\ hedge_result = Unset /\ herr = "none"

----------------------------------------------------------------------------
(* Bounds of the model *)

MaxLen == 4
MaxVal == 1

\* a float of the spread: a number or the missing value NaN
Num(x) == [nan |-> FALSE, v |-> x]
NaNValue == [nan |-> TRUE, v |-> 0]

Values == {Num(x) : x \in 0..MaxVal} \cup {NaNValue}
Windows == 1..(MaxLen + 1)
NumStds == {-1, 0, 1, 2}
Fees == {0, 1}

Spreads == UNION {[1..n -> Values] : n \in 0..MaxLen}

\* inputs of the multi-window runner
RunnerSpreads == UNION {[1..n -> Values] : n \in 0..(MaxLen - 1)}
ListLens == {0, 1, 2}
WindowLists == UNION {[1..n -> Windows] : n \in ListLens}

----------------------------------------------------------------------------
(* Program constants *)

FLAT == 0
LONG == 1
SHORT == -1
None == 0

----------------------------------------------------------------------------
(* Exact arithmetic on band values *)

NaN == [nan |-> TRUE, a |-> 0, b |-> 0, d |-> 0, w |-> 1]

isna(x) == x.nan

\* x <= b * sqrt(d) for integers x, b and d >= 0
LeqSurd(x, b, d) ==
    IF b >= 0 THEN x <= 0 \/ x * x <= b * b * d
              ELSE x <= 0 /\ x * x >= b * b * d

\* value <= band  and  value >= band, band = (a + b*sqrt(d)) / w, w > 0
ValueLeq(value, band) == LeqSurd(value * band.w - band.a, band.b, band.d)
ValueGeq(value, band) == LeqSurd(band.a - value * band.w, -band.b, band.d)

RECURSIVE SumRange(_, _, _)
SumRange(s, lo, hi) == IF lo > hi THEN 0 ELSE s[hi].v + SumRange(s, lo, hi - 1)

RECURSIVE SumSqRange(_, _, _)
SumSqRange(s, lo, hi) ==
    IF lo > hi THEN 0 ELSE s[hi].v * s[hi].v + SumSqRange(s, lo, hi - 1)

----------------------------------------------------------------------------
(* signals.py: compute_bollinger_bands *)

\* rolling(window, min_periods=window): the window ending at t holds
\* `window` observations, none of them NaN
FullWindow(s, w, t) == t >= w /\ \A j \in (t - w + 1)..t : ~s[j].nan

\* spread.rolling(window, min_periods=window).mean() at timestamp t
rolling_mean(s, w, t) ==
    IF ~FullWindow(s, w, t) THEN NaN
    ELSE [nan |-> FALSE, a |-> SumRange(s, t - w + 1, t), b |-> 0, d |-> 0,
          w |-> w]

\* w^2 times the population variance of the window ending at t
WindowDev(s, w, t) ==
    w * SumSqRange(s, t - w + 1, t)
        - SumRange(s, t - w + 1, t) * SumRange(s, t - w + 1, t)

\* spread.rolling(window, min_periods=window).std(ddof=0) at timestamp t
rolling_std(s, w, t) ==
    IF ~FullWindow(s, w, t) THEN NaN
    ELSE [nan |-> FALSE, a |-> 0, b |-> 1, d |-> WindowDev(s, w, t), w |-> w]

\* mean + c * std pointwise; NaN propagates
BandAt(m, sd, c) ==
    IF isna(m) \/ isna(sd) THEN NaN
    ELSE [nan |-> FALSE, a |-> m.a, b |-> c * sd.b, d |-> sd.d, w |-> m.w]

\* compute_bollinger_bands with the window clipped to the series length
compute_bollinger_bands_clipped(s, w, k) ==
    LET c == IF w > Len(s) THEN Len(s) ELSE w IN
    [window |-> w,
     mean  |-> [t \in 1..Len(s) |-> rolling_mean(s, c, t)],
     upper |-> [t \in 1..Len(s) |->
                  BandAt(rolling_mean(s, c, t), rolling_std(s, c, t), k)],
     lower |-> [t \in 1..Len(s) |->
                  BandAt(rolling_mean(s, c, t), rolling_std(s, c, t), -k)],
     std   |-> [t \in 1..Len(s) |-> rolling_std(s, c, t)]]

compute_bollinger_bands(s, w, k) ==
    [window |-> w,
     mean  |-> [t \in 1..Len(s) |-> rolling_mean(s, w, t)],
     upper |-> [t \in 1..Len(s) |->
                  BandAt(rolling_mean(s, w, t), rolling_std(s, w, t), k)],
     lower |-> [t \in 1..Len(s) |->
                  BandAt(rolling_mean(s, w, t), rolling_std(s, w, t), -k)],
     std   |-> [t \in 1..Len(s) |-> rolling_std(s, w, t)]]

----------------------------------------------------------------------------
(* backtest.py: backtest_bollinger *)

Trade(et, xt, side, es, xs, pnl, f) ==
    [entry_time |-> et, exit_time |-> xt, side |-> side, entry_spread |-> es,
     exit_spread |-> xs, pnl |-> pnl, fee |-> f]

\* lines 86-91: the locals before the loop; entries is the history count of
\* the assignments of lines 104 and 108
InitState ==
    [position |-> FLAT, entry_price |-> 0, entry_time |-> None, equity |-> 0,
     equity_values |-> <<>>, trades |-> <<>>, entries |-> 0]

\* line 98: any of mean / upper / lower is NaN at timestamp t
Undefined(b, t) == isna(b.mean[t]) \/ isna(b.upper[t]) \/ isna(b.lower[t])

\* EnterLongCond with a strict comparison: value < lower
EnterLongCondStrict(b, s, t) == ~ValueGeq(s[t].v, b.lower[t])

\* EnterShortCond with a strict comparison: value > upper
EnterShortCondStrict(b, s, t) == ~ValueLeq(s[t].v, b.upper[t])

\* lines 103 / 107 / 112 / 129: the four threshold tests
EnterLongCond(b, s, t)  == ValueLeq(s[t].v, b.lower[t])
EnterShortCond(b, s, t) == ValueGeq(s[t].v, b.upper[t])
ExitLongCond(b, s, t)   == ValueGeq(s[t].v, b.mean[t])
ExitShortCond(b, s, t)  == ValueLeq(s[t].v, b.mean[t])

\* lines 98-144: the branch of the loop body taken at timestamp t
Branch(st, b, s, t) ==
    IF Undefined(b, t) THEN "warmup"
    ELSE IF st.position = FLAT THEN
        IF EnterLongCond(b, s, t) THEN "enter_long"
        ELSE IF EnterShortCond(b, s, t) THEN "enter_short"
        ELSE "hold"
    ELSE IF st.position = LONG THEN
        IF ExitLongCond(b, s, t) THEN "exit_long" ELSE "hold"
    ELSE IF st.position = SHORT THEN
        IF ExitShortCond(b, s, t) THEN "exit_short" ELSE "hold"
    ELSE "hold"

\* ShortPnl with the sign of a long trade
ShortPnlAsLong(v, ep, f) == v - ep - f

\* lines 113 / 130
LongPnl(v, ep, f)  == v - ep - f
ShortPnl(v, ep, f) == ep - v - f

\* lines 104-106
OnEnterLong(st, v, t) ==
    [st EXCEPT !.position = LONG, !.entry_price = v, !.entry_time = t,
               !.entries = @ + 1]

\* OnEnterShort that opens the position without recording it as an entry
\* of its own: the position is left as it was
OnEnterShortNoPosition(st, v, t) ==
    [st EXCEPT !.entry_price = v, !.entry_time = t, !.entries = @ + 1]

\* lines 108-110
OnEnterShort(st, v, t) ==
    [st EXCEPT !.position = SHORT, !.entry_price = v, !.entry_time = t,
               !.entries = @ + 1]

\* OnExitLong with equity = pnl in place of equity += pnl
OnExitLongOverwrites(st, v, f, t) ==
    [st EXCEPT !.equity = LongPnl(v, st.entry_price, f),
               !.trades = Append(@, Trade(st.entry_time, t, "long",
                                          st.entry_price, v,
                                          LongPnl(v, st.entry_price, f), f)),
               !.position = FLAT,
               !.entry_time = None]

\* OnExitLong as a stop-and-reverse: the exit flips the position
OnExitLongReversing(st, v, f, t) ==
    [st EXCEPT !.equity = @ + LongPnl(v, st.entry_price, f),
               !.trades = Append(@, Trade(st.entry_time, t, "long",
                                          st.entry_price, v,
                                          LongPnl(v, st.entry_price, f), f)),
               !.position = SHORT,
               !.entry_price = v,
               !.entry_time = t,
               !.entries = @ + 1]

\* lines 113-127
OnExitLong(st, v, f, t) ==
    [st EXCEPT !.equity = @ + LongPnl(v, st.entry_price, f),
               !.trades = Append(@, Trade(st.entry_time, t, "long",
                                          st.entry_price, v,
                                          LongPnl(v, st.entry_price, f), f)),
               !.position = FLAT,
               !.entry_time = None]

\* OnExitShort that books the trade without adding its pnl to the equity
OnExitShortNoEquity(st, v, f, t) ==
    [st EXCEPT !.trades = Append(@, Trade(st.entry_time, t, "short",
                                          st.entry_price, v,
                                          ShortPnl(v, st.entry_price, f), f)),
               !.position = FLAT,
               !.entry_time = None]

\* OnExitShort that opens a long position at the timestamp of the exit
OnExitShortReentering(st, v, f, t) ==
    [st EXCEPT !.equity = @ + ShortPnl(v, st.entry_price, f),
               !.trades = Append(@, Trade(st.entry_time, t, "short",
                                          st.entry_price, v,
                                          ShortPnl(v, st.entry_price, f), f)),
               !.position = LONG,
               !.entry_price = v,
               !.entry_time = t,
               !.entries = @ + 1]

\* lines 130-144
OnExitShort(st, v, f, t) ==
    [st EXCEPT !.equity = @ + ShortPnl(v, st.entry_price, f),
               !.trades = Append(@, Trade(st.entry_time, t, "short",
                                          st.entry_price, v,
                                          ShortPnl(v, st.entry_price, f), f)),
               !.position = FLAT,
               !.entry_time = None]

\* lines 99 and 146: equity_values.append(equity)
AppendEquity(st) == [st EXCEPT !.equity_values = Append(@, st.equity)]

\* LoopBody with the warm-up branch appending 0.0 instead of the equity
LoopBodyWarmupZero(st, b, s, f, t) ==
    LET br == Branch(st, b, s, t)
        v  == s[t].v
    IN  CASE br = "warmup"      -> [st EXCEPT !.equity_values = Append(@, 0)]
          [] br = "enter_long"  -> AppendEquity(OnEnterLong(st, v, t))
          [] br = "enter_short" -> AppendEquity(OnEnterShort(st, v, t))
          [] br = "exit_long"   -> AppendEquity(OnExitLong(st, v, f, t))
          [] br = "exit_short"  -> AppendEquity(OnExitShort(st, v, f, t))
          [] OTHER              -> AppendEquity(st)

\* lines 94-146: one pass of the loop body, at timestamp t
LoopBody(st, b, s, f, t) ==
    LET br == Branch(st, b, s, t)
        v  == s[t].v
    IN  CASE br = "warmup"      -> AppendEquity(st)
          [] br = "enter_long"  -> AppendEquity(OnEnterLong(st, v, t))
          [] br = "enter_short" -> AppendEquity(OnEnterShort(st, v, t))
          [] br = "exit_long"   -> AppendEquity(OnExitLong(st, v, f, t))
          [] br = "exit_short"  -> AppendEquity(OnExitShort(st, v, f, t))
          [] OTHER              -> AppendEquity(st)

----------------------------------------------------------------------------
(* backtest.py: _compute_stats *)

RECURSIVE SumSeq(_)
SumSeq(s) == IF s = <<>> THEN 0 ELSE s[Len(s)] + SumSeq(SubSeq(s, 1, Len(s) - 1))

RECURSIVE SumSqSeq(_)
SumSqSeq(s) ==
    IF s = <<>> THEN 0
    ELSE s[Len(s)] * s[Len(s)] + SumSqSeq(SubSeq(s, 1, Len(s) - 1))

Max(S) == CHOOSE x \in S : \A y \in S : y <= x
Min(S) == CHOOSE x \in S : \A y \in S : x <= y

\* the quotient num / den, kept exact; float 0.0 is Ratio(0, 1)
Ratio(n, d) == [num |-> n, den |-> d]

\* the float num / sqrt(rad), kept exact, or NaN
SurdRatio(n, r) == [nan |-> FALSE, num |-> n, rad |-> r]
NaNRatio == [nan |-> TRUE, num |-> 0, rad |-> 1]

Pnls(ts) == [j \in 1..Len(ts) |-> ts[j].pnl]
\* IsWin counting a trade with no pnl as a win
IsWinOrFlat(x) == x >= 0
IsWin(x) == x > 0
IsLoss(x) == x < 0

\* line 58: equity_curve.diff().dropna()
Returns(eq) == [t \in 1..(Len(eq) - 1) |-> eq[t + 1] - eq[t]]

\* n^2 times the population variance of the returns
ReturnsDev(r) == Len(r) * SumSqSeq(r) - SumSeq(r) * SumSeq(r)

\* Sharpe without the returns.empty test: mean and deviation of no
\* returns are NaN, and NaN != 0
SharpeNoEmptyTest(eq) ==
    LET r == Returns(eq) IN
    IF r = <<>> THEN NaNRatio
    ELSE IF ReturnsDev(r) # 0 THEN SurdRatio(SumSeq(r), ReturnsDev(r))
    ELSE SurdRatio(0, 1)

\* Sharpe without the zero-deviation test: the mean over a zero deviation
\* is NaN
SharpeNoZeroVarTest(eq) ==
    LET r == Returns(eq) IN
    IF r = <<>> THEN SurdRatio(0, 1)
    ELSE IF ReturnsDev(r) # 0 THEN SurdRatio(SumSeq(r), ReturnsDev(r))
    ELSE NaNRatio

\* lines 59-62
Sharpe(eq) ==
    LET r == Returns(eq) IN
    IF r # <<>> /\ ReturnsDev(r) # 0
    THEN SurdRatio(SumSeq(r), ReturnsDev(r))
    ELSE SurdRatio(0, 1)

\* line 63: equity_curve.cummax()
RunningMax(eq) == [t \in 1..Len(eq) |-> Max({eq[u] : u \in 1..t})]

\* lines 64-65
MaxDrawdown(eq) ==
    IF eq # <<>>
    THEN Min({eq[t] - RunningMax(eq)[t] : t \in 1..Len(eq)})
    ELSE 0

compute_stats(eq, ts) ==
    LET wins   == SelectSeq(Pnls(ts), IsWin)
        losses == SelectSeq(Pnls(ts), IsLoss)
        num    == Len(ts)
    IN [num_trades   |-> num,
        win_rate     |-> IF num # 0 THEN Ratio(Len(wins), num) ELSE Ratio(0, 1),
        avg_win      |-> IF wins # <<>> THEN Ratio(SumSeq(wins), Len(wins))
                                         ELSE Ratio(0, 1),
        avg_loss     |-> IF losses # <<>> THEN Ratio(SumSeq(losses), Len(losses))
                                           ELSE Ratio(0, 1),
        total_pnl    |-> SumSeq(Pnls(ts)),
        sharpe       |-> Sharpe(eq),
        max_drawdown |-> MaxDrawdown(eq)]

BacktestResult(w, b, ts, eq, st) ==
    [returned |-> TRUE, window |-> w, bands |-> b, trades |-> ts,
     equity_curve |-> eq, stats |-> st]

NoResult == [returned |-> FALSE]

\* MakeResult that closes a position still open at the end of the spread,
\* at its entry price
MakeResultClosingOpen(st, w, b) ==
    LET ts == IF st.position = FLAT THEN st.trades
              ELSE Append(st.trades,
                          Trade(st.entry_time, Len(st.equity_values),
                                IF st.position = LONG THEN "long" ELSE "short",
                                st.entry_price, st.entry_price, 0, 0))
    IN  BacktestResult(w, b, ts, st.equity_values,
                       compute_stats(st.equity_values, ts))

\* lines 148-156
MakeResult(st, w, b) ==
    BacktestResult(w, b, st.trades, st.equity_values,
                   compute_stats(st.equity_values, st.trades))

\* lines 93-146 from timestamp t to the end of the spread
RECURSIVE RunLoop(_, _, _, _, _)
RunLoop(st, b, s, f, t) ==
    IF t > Len(s) THEN st ELSE RunLoop(LoopBody(st, b, s, f, t), b, s, f, t + 1)

\* lines 77-156: the whole call
backtest_bollinger(s, w, k, f) ==
    LET b == compute_bollinger_bands(s, w, k)
    IN  MakeResult(RunLoop(InitState, b, s, f, 1), w, b)

----------------------------------------------------------------------------
(* One backtest_bollinger call, a loop pass at a time *)

\* line 85
bands == compute_bollinger_bands(spread, window, num_std)

\* the locals of the running call
locals ==
    [position |-> position, entry_price |-> entry_price,
     entry_time |-> entry_time, equity |-> equity,
     equity_values |-> equity_values, trades |-> trades, entries |-> entries]

SetLocals(st) ==
    /\ position' = st.position
    /\ entry_price' = st.entry_price
    /\ entry_time' = st.entry_time
    /\ equity' = st.equity
    /\ equity_values' = st.equity_values
    /\ trades' = st.trades
    /\ entries' = st.entries

\* the timestamp and value the for loop takes next
timestamp == i + 1
value == spread[i + 1].v

InLoop == pc = "loop" /\ i < Len(spread)

EmptyDict == <<>>

Init ==
    /\ spread \in Spreads
    /\ window \in Windows
    /\ num_std \in NumStds
    /\ fee \in Fees
    /\ pc = "loop"
    /\ i = 0
    /\ position = InitState.position
    /\ entry_price = InitState.entry_price
    /\ entry_time = InitState.entry_time
    /\ equity = InitState.equity
    /\ equity_values = InitState.equity_values
    /\ trades = InitState.trades
    /\ entries = InitState.entries
    /\ result = NoResult
    /\ windows = <<>>
    /\ wi = 0
    /\ results = EmptyDict
    /\ LoaderIdle /\ ConvertIdle /\ HedgeIdle

\* the branch the next loop pass takes
branch == Branch(locals, bands, spread, timestamp)

\* the loop pass at the next timestamp: lines 94-146
LoopPass ==
    /\ SetLocals(LoopBody(locals, bands, spread, fee, timestamp))
    /\ i' = i + 1
    /\ UNCHANGED <<spread, window, num_std, fee, pc, result, windows, wi,
                   results>>
    /\ UNCHANGED otherVars

\* lines 98-100
Warmup ==
    /\ InLoop /\ branch = "warmup"
    /\ LoopPass

\* lines 102-106, 146
EnterLong ==
    /\ InLoop /\ branch = "enter_long"
    /\ LoopPass

\* lines 107-110, 146
EnterShort ==
    /\ InLoop /\ branch = "enter_short"
    /\ LoopPass

\* lines 111-127, 146
ExitLong ==
    /\ InLoop /\ branch = "exit_long"
    /\ LoopPass

\* lines 128-144, 146
ExitShort ==
    /\ InLoop /\ branch = "exit_short"
    /\ LoopPass

\* no branch of lines 102-144 taken: line 146 alone
Hold ==
    /\ InLoop /\ branch = "hold"
    /\ LoopPass

\* lines 148-156: the loop is exhausted, build and return the result
Return ==
    /\ pc = "loop" /\ i = Len(spread)
    /\ result' = MakeResult(locals, window, bands)
    /\ pc' = "done"
    /\ UNCHANGED <<spread, window, num_std, fee, i, position, entry_price,
                   entry_time, equity, equity_values, trades, entries,
                   windows, wi, results>>
    /\ UNCHANGED otherVars

Next ==
    \/ Warmup
    \/ EnterLong
    \/ EnterShort
    \/ ExitLong
    \/ ExitShort
    \/ Hold
    \/ Return

Spec == Init /\ [][Next]_vars

----------------------------------------------------------------------------
(* backtest.py: run_multi_window_backtest, one backtest per step *)

\* line 169: results[window] = ...
DictSet(d, key, val) ==
    [x \in (DOMAIN d) \cup {key} |-> IF x = key THEN val ELSE d[x]]

RunnerInit ==
    /\ spread \in RunnerSpreads
    /\ windows \in WindowLists
    /\ num_std \in NumStds
    /\ fee \in Fees
    /\ pc = "runner"
    /\ wi = 0
    /\ results = EmptyDict
    /\ window = None
    /\ i = 0
    /\ position = InitState.position
    /\ entry_price = InitState.entry_price
    /\ entry_time = InitState.entry_time
    /\ equity = InitState.equity
    /\ equity_values = InitState.equity_values
    /\ trades = InitState.trades
    /\ entries = InitState.entries
    /\ result = NoResult
    /\ LoaderIdle /\ ConvertIdle /\ HedgeIdle

\* RunnerCall with one trades list shared by the backtests: each window's
\* run appends to the trades of the window before it
RunnerCallSharedTrades ==
    /\ pc = "runner" /\ wi < Len(windows)
    /\ window' = windows[wi + 1]
    /\ LET w    == windows[wi + 1]
           b    == compute_bollinger_bands(spread, w, num_std)
           prev == IF wi = 0 THEN <<>> ELSE results[windows[wi]].trades
           st0  == [InitState EXCEPT !.trades = prev]
       IN  results' = DictSet(results, w,
                              MakeResult(RunLoop(st0, b, spread, fee, 1), w, b))
    /\ wi' = wi + 1
    /\ UNCHANGED <<spread, num_std, fee, pc, i, position, entry_price,
                   entry_time, equity, equity_values, trades, entries,
                   result, windows>>
    /\ UNCHANGED otherVars

\* lines 168-169: the next window's backtest, stored under its key
RunnerCall ==
    /\ pc = "runner" /\ wi < Len(windows)
    /\ window' = windows[wi + 1]
    /\ results' = DictSet(results, windows[wi + 1],
                          backtest_bollinger(spread, windows[wi + 1],
                                             num_std, fee))
    /\ wi' = wi + 1
    /\ UNCHANGED <<spread, num_std, fee, pc, i, position, entry_price,
                   entry_time, equity, equity_values, trades, entries,
                   result, windows>>
    /\ UNCHANGED otherVars

\* line 170
RunnerReturn ==
    /\ pc = "runner" /\ wi = Len(windows)
    /\ pc' = "done"
    /\ UNCHANGED <<spread, window, num_std, fee, i, position, entry_price,
                   entry_time, equity, equity_values, trades, entries,
                   result, windows, wi, results>>
    /\ UNCHANGED otherVars

\* either entry point is called
InitCalls == Init \/ RunnerInit

NextCalls ==
    \/ Next
    \/ RunnerCall
    \/ RunnerReturn

SpecCalls == InitCalls /\ [][NextCalls]_vars

----------------------------------------------------------------------------
(* data.py: strings *)

\* A string is the tuple of its characters.
LowerToUpper ==
    [c \in {"e", "u", "r", "s", "d"} |->
        CASE c = "e" -> "E" [] c = "u" -> "U" [] c = "r" -> "R"
          [] c = "s" -> "S" [] c = "d" -> "D"]

UpperLetters == {"E", "U", "R", "S", "D", "G", "B", "P", "X"}

\* str.isalpha of one character
isalpha(c) == c \in UpperLetters \/ c \in DOMAIN LowerToUpper

\* str.upper
upper(s) ==
    [j \in 1..Len(s) |->
        IF s[j] \in DOMAIN LowerToUpper THEN LowerToUpper[s[j]] ELSE s[j]]

USD == <<"U", "S", "D">>
EUR == <<"E", "U", "R">>
GBP == <<"G", "B", "P">>
usd == <<"u", "s", "d">>
eur == <<"e", "u", "r">>

EURUSD == <<"E", "U", "R", "U", "S", "D">>
USDEUR == <<"U", "S", "D", "E", "U", "R">>
GBPUSD == <<"G", "B", "P", "U", "S", "D">>

----------------------------------------------------------------------------
(* data.py: _parse_fx_pair, _convert_currency *)

\* the outcome of a call: the exception raised ("none" if none) and the value
Raised(err) == [err |-> err, value |-> Unset]
Returned(v) == [err |-> "none", value |-> v]

\* lines 34-40, failing only below six letters
parse_fx_pair_first_six(ticker) ==
    LET letters == SelectSeq(ticker, isalpha)
    IN  IF Len(letters) < 6
        THEN Raised("ValueError")
        ELSE Returned([base |-> upper(SubSeq(letters, 1, 3)),
                       quote |-> upper(SubSeq(letters, 4, 6))])

\* lines 34-40
parse_fx_pair(ticker) ==
    LET letters == SelectSeq(ticker, isalpha)
    IN  IF Len(letters) # 6
        THEN Raised("ValueError")
        ELSE Returned([base |-> upper(SubSeq(letters, 1, 3)),
                       quote |-> upper(SubSeq(letters, 4, 6))])

\* prices * fx_series and prices / fx_series over a common index
Multiply(prices, fx_series) ==
    [r \in DOMAIN prices |->
        Ratio(prices[r].num * fx_series[r].num, prices[r].den * fx_series[r].den)]
Divide(prices, fx_series) ==
    [r \in DOMAIN prices |->
        Ratio(prices[r].num * fx_series[r].den, prices[r].den * fx_series[r].num)]

\* lines 43-66
convert_currency(prices, source_currency, base_currency, fx_pair, fx_series) ==
    LET source == upper(source_currency)
        base == upper(base_currency)
        fx == parse_fx_pair(fx_pair)
    IN  IF fx.err # "none" THEN Raised(fx.err)
        ELSE IF source = base THEN Returned(prices)
        ELSE IF source = fx.value.base /\ base = fx.value.quote
             THEN Returned(Multiply(prices, fx_series))
        ELSE IF source = fx.value.quote /\ base = fx.value.base
             THEN Returned(Divide(prices, fx_series))
        ELSE Raised("ValueError")

----------------------------------------------------------------------------
(* data.py: load_pair_data *)

MaxRows == 2

\* the timestamps a provider can return prices for
Rows == 1..MaxRows

\* exact values of float prices
Price(x) == Ratio(x, 1)

LegTickers == [A |-> "AAA", B |-> "BBB"]
LegOrder == <<"A", "B">>

\* fx_tickers: None, one ticker for every symbol, or a mapping by symbol
FxSpecs ==
    {[kind |-> "none", t |-> <<>>, m |-> <<>>]}
    \cup {[kind |-> "str", t |-> t, m |-> <<>>] : t \in {EURUSD, USDEUR, GBPUSD}}
    \cup {[kind |-> "map", t |-> <<>>, m |-> m] :
            m \in UNION {[D -> {EURUSD, USDEUR, GBPUSD}] : D \in SUBSET {"AAA", "BBB"}}}

\* what provider.fetch returns for a leg: prices over Rows, and a currency
\* a missing price is the quotient 0 / 0
LegPrices(leg) ==
    [t \in Rows |->
        IF leg = "A" /\ t \in ld.nan_rows THEN Ratio(0, 0)
        ELSE Price(IF leg = "A" THEN 6 ELSE 12)]

\* what fx_provider.fetch returns for an FX ticker: a constant rate
FxRate(t) == IF t = EURUSD THEN 2 ELSE IF t = USDEUR THEN 3 ELSE 4
FxPrices(t, rows) == [r \in rows |-> Price(FxRate(t))]

\* lines 22-31: the series named `name` (the index is UTC and sorted here)
ensure_series(data, name) == [name |-> name, data |-> data]

\* lines 69-77: the ticker resolved for symbol, or None
Some(t) == [some |-> TRUE, t |-> t]
NoneTicker == [some |-> FALSE, t |-> <<>>]

\* lines 69-77 with a mapping that falls back to a default ticker
resolve_fx_ticker_with_default(fx_spec, symbol) ==
    IF fx_spec.kind = "none" THEN NoneTicker
    ELSE IF fx_spec.kind = "str" THEN Some(fx_spec.t)
    ELSE IF symbol \in DOMAIN fx_spec.m THEN Some(fx_spec.m[symbol])
    ELSE Some(EURUSD)

resolve_fx_ticker(fx_spec, symbol) ==
    IF fx_spec.kind = "none" THEN NoneTicker
    ELSE IF fx_spec.kind = "str" THEN Some(fx_spec.t)
    ELSE IF symbol \in DOMAIN fx_spec.m THEN Some(fx_spec.m[symbol])
    ELSE NoneTicker

\* f"FX_{fx_ticker}"
FxKey(t) == <<"F", "X", "_">> \o t

LoadInputs ==
    [currency : [A : {USD, EUR, eur}, B : {USD, EUR, GBP}],
     base_currency : {USD, usd, EUR},
     fx_tickers : FxSpecs,
     fx_rows : SUBSET Rows,
     nan_rows : SUBSET Rows]

\* backtest.py is not running
BacktestIdle ==
    /\ spread = <<>> /\ window = None /\ num_std = 0 /\ fee = 0
    /\ pc = "idle" /\ i = 0
    /\ position = InitState.position
    /\ entry_price = InitState.entry_price
    /\ entry_time = InitState.entry_time
    /\ equity = InitState.equity
    /\ equity_values = InitState.equity_values
    /\ trades = InitState.trades
    /\ entries = InitState.entries
    /\ result = NoResult
    /\ windows = <<>> /\ wi = 0 /\ results = EmptyDict

LoadInit ==
    /\ ld \in LoadInputs
    /\ lpc = "fetch"
    /\ leg_idx = 0
    /\ fx_cache = {}
    /\ series_dict = <<>>
    /\ fx_fetches = <<>>
    /\ frame = Unset
    /\ lerr = "none"
    /\ BacktestIdle /\ ConvertIdle /\ HedgeIdle

\* the leg the current for loop takes next
leg == LegOrder[leg_idx + 1]
leg_currency == upper(ld.currency[leg])
leg_fx == resolve_fx_ticker(ld.fx_tickers, LegTickers[leg])
NeedsFx == leg_currency # upper(ld.base_currency)

LoadFails(err) ==
    /\ lpc' = "failed"
    /\ lerr' = err

\* lines 109-115: both legs fetched and put in series_dict
FetchLegs ==
    /\ lpc = "fetch"
    /\ series_dict' =
         <<[key |-> <<"A">>, series |-> ensure_series(LegPrices("A"), <<"A">>)],
           [key |-> <<"B">>, series |-> ensure_series(LegPrices("B"), <<"B">>)]>>
    /\ lpc' = "legs"
    /\ UNCHANGED <<ld, leg_idx, fx_cache, fx_fetches, frame, lerr>>
    /\ UNCHANGED <<backtestVars, convertVars, hedgeVars>>

\* lines 109-110: provider.fetch raises
FetchLegsFail ==
    /\ lpc = "fetch"
    /\ LoadFails("IOError")
    /\ UNCHANGED <<ld, leg_idx, fx_cache, series_dict, fx_fetches, frame>>
    /\ UNCHANGED <<backtestVars, convertVars, hedgeVars>>

InLegs == lpc = "legs" /\ leg_idx < Len(LegOrder)

\* lines 123-125: the leg is in the base currency
LegSkip ==
    /\ InLegs /\ ~NeedsFx
    /\ leg_idx' = leg_idx + 1
    /\ UNCHANGED <<ld, lpc, fx_cache, series_dict, fx_fetches, frame, lerr>>
    /\ UNCHANGED <<backtestVars, convertVars, hedgeVars>>

\* lines 126-131: no FX ticker for the leg
LegNoFx ==
    /\ InLegs /\ NeedsFx /\ ~leg_fx.some
    /\ LoadFails("ValueError")
    /\ UNCHANGED <<ld, leg_idx, fx_cache, series_dict, fx_fetches, frame>>
    /\ UNCHANGED <<backtestVars, convertVars, hedgeVars>>

\* line 135: series_dict[key] = series
DictPut(d, key, series) ==
    IF \E j \in 1..Len(d) : d[j].key = key
    THEN [j \in 1..Len(d) |->
            IF d[j].key = key THEN [key |-> key, series |-> series] ELSE d[j]]
    ELSE Append(d, [key |-> key, series |-> series])

\* line 132 with the cache never consulted
NotCachedAlways(t) == TRUE

\* line 132: the FX series is to be fetched
NotCached(t) == t \notin fx_cache

\* lines 132-135: the FX series is fetched, cached and put in series_dict
LegFetchFx ==
    /\ InLegs /\ NeedsFx /\ leg_fx.some
    /\ NotCached(leg_fx.t)
    /\ fx_fetches' = Append(fx_fetches, [leg |-> leg, ticker |-> leg_fx.t])
    /\ fx_cache' = fx_cache \cup {leg_fx.t}
    /\ series_dict' =
         DictPut(series_dict, FxKey(leg_fx.t),
                 ensure_series(FxPrices(leg_fx.t, ld.fx_rows), leg_fx.t))
    /\ leg_idx' = leg_idx + 1
    /\ UNCHANGED <<ld, lpc, frame, lerr>>
    /\ UNCHANGED <<backtestVars, convertVars, hedgeVars>>

\* line 133: fx_provider.fetch raises
LegFetchFxFail ==
    /\ InLegs /\ NeedsFx /\ leg_fx.some
    /\ NotCached(leg_fx.t)
    /\ fx_fetches' = Append(fx_fetches, [leg |-> leg, ticker |-> leg_fx.t])
    /\ LoadFails("IOError")
    /\ UNCHANGED <<ld, leg_idx, fx_cache, series_dict, frame>>
    /\ UNCHANGED <<backtestVars, convertVars, hedgeVars>>

\* lines 132, 135: the cached FX series is put in series_dict again
LegReuseFx ==
    /\ InLegs /\ NeedsFx /\ leg_fx.some
    /\ ~NotCached(leg_fx.t)
    /\ series_dict' =
         DictPut(series_dict, FxKey(leg_fx.t),
                 ensure_series(FxPrices(leg_fx.t, ld.fx_rows), leg_fx.t))
    /\ leg_idx' = leg_idx + 1
    /\ UNCHANGED <<ld, lpc, fx_cache, fx_fetches, frame, lerr>>
    /\ UNCHANGED <<backtestVars, convertVars, hedgeVars>>

SeqRange(s) == {s[j] : j \in 1..Len(s)}

\* line 137: pd.concat(series_dict.values(), axis=1, join="inner").dropna()
\* .sort_index(); a column is named by its series, and the index is the
\* timestamps at which all series have a value that is not missing
concat(d) ==
    LET names == [j \in 1..Len(d) |-> d[j].series.name]
        index == {r \in Rows : \A j \in 1..Len(d) :
                     /\ r \in DOMAIN d[j].series.data
                     /\ d[j].series.data[r].den # 0}
        column(c) == d[CHOOSE j \in 1..Len(d) : names[j] = c].series.data
    IN  [columns |-> names,
         index |-> index,
         data |-> [c \in SeqRange(names) |-> [r \in index |-> column(c)[r]]]]

\* lines 149-150: the frame without its FX_ columns
startswith_FX(col) == Len(col) >= 3 /\ SubSeq(col, 1, 3) = <<"F", "X", "_">>
drop_fx_columns(f) ==
    LET kept == SelectSeq(f.columns, LAMBDA col : ~startswith_FX(col))
    IN  [columns |-> kept,
         index |-> f.index,
         data |-> [c \in SeqRange(kept) |-> f.data[c]]]

\* line 137
Concat ==
    /\ lpc = "legs" /\ leg_idx = Len(LegOrder)
    /\ frame' = concat(series_dict)
    /\ lpc' = "convert"
    /\ leg_idx' = 0
    /\ UNCHANGED <<ld, fx_cache, series_dict, fx_fetches, lerr>>
    /\ UNCHANGED <<backtestVars, convertVars, hedgeVars>>

InConvert == lpc = "convert" /\ leg_idx < Len(LegOrder)

\* lines 142-144: the leg is in the base currency
ConvertSkip ==
    /\ InConvert /\ ~NeedsFx
    /\ leg_idx' = leg_idx + 1
    /\ UNCHANGED <<ld, lpc, fx_cache, series_dict, fx_fetches, frame, lerr>>
    /\ UNCHANGED <<backtestVars, convertVars, hedgeVars>>

\* lines 145-147: the FX column is looked up and the leg converted
ConvertLeg ==
    /\ InConvert /\ NeedsFx
    /\ LET key == FxKey(leg_fx.t)
           column == <<leg>>
       IN  IF key \notin SeqRange(frame.columns)
           THEN /\ LoadFails("KeyError")
                /\ UNCHANGED <<frame, leg_idx>>
           ELSE LET r == convert_currency(frame.data[column], leg_currency,
                                          ld.base_currency, leg_fx.t,
                                          frame.data[key])
                IN  IF r.err # "none"
                    THEN /\ LoadFails(r.err)
                         /\ UNCHANGED <<frame, leg_idx>>
                    ELSE /\ frame' = [frame EXCEPT !.data[column] = r.value]
                         /\ leg_idx' = leg_idx + 1
                         /\ UNCHANGED <<lpc, lerr>>
    /\ UNCHANGED <<ld, fx_cache, series_dict, fx_fetches>>
    /\ UNCHANGED <<backtestVars, convertVars, hedgeVars>>

\* lines 149-152
LoadReturn ==
    /\ lpc = "convert" /\ leg_idx = Len(LegOrder)
    /\ frame' = drop_fx_columns(frame)
    /\ lpc' = "done"
    /\ UNCHANGED <<ld, leg_idx, fx_cache, series_dict, fx_fetches, lerr>>
    /\ UNCHANGED <<backtestVars, convertVars, hedgeVars>>

NextLoad ==
    \/ FetchLegs
    \/ FetchLegsFail
    \/ LegSkip
    \/ LegNoFx
    \/ LegFetchFx
    \/ LegFetchFxFail
    \/ LegReuseFx
    \/ Concat
    \/ ConvertSkip
    \/ ConvertLeg
    \/ LoadReturn

SpecLoad == LoadInit /\ [][NextLoad]_vars

----------------------------------------------------------------------------
(* Properties of backtest_bollinger *)

\* the equity of the previous timestamp (0 at the start)
PrevEquity ==
    IF equity_values = <<>> THEN 0 ELSE equity_values[Len(equity_values)]

\* the bands are defined at the timestamp the loop takes next
DefinedNext == InLoop /\ ~Undefined(bands, timestamp)

\* the loop has passed timestamp t
Passed(t) == t \in 1..i

\* C1: the position after each timestamp is one of FLAT, LONG, SHORT, and
\* it never goes from LONG to SHORT or from SHORT to LONG between two
\* consecutive timestamps.
C1_NoDirectReversal ==
    /\ position \in {FLAT, LONG, SHORT}
    /\ [][/\ position' \in {FLAT, LONG, SHORT}
          /\ ~(position = LONG /\ position' = SHORT)
          /\ ~(position = SHORT /\ position' = LONG)]_vars

\* C1 witness: a long position was closed at timestamp i on a value that also
\* meets the short entry condition (and not the long one), and the engine
\* is FLAT.
C1_Witness ==
    /\ Passed(i)
    /\ position = FLAT
    /\ trades # <<>>
    /\ trades[Len(trades)].exit_time = i
    /\ trades[Len(trades)].side = "long"
    /\ ValueGeq(spread[i].v, bands.upper[i])
    /\ ~ValueLeq(spread[i].v, bands.lower[i])

\* C2: at a timestamp where mean, upper or lower is NaN, the position, the
\* recorded entry time and price and the trade list stay as they are, and
\* the equity appended is the equity of the previous timestamp.
C2_WarmupFrame ==
    [][(InLoop /\ (\/ isna(bands.mean[timestamp])
                   \/ isna(bands.upper[timestamp])
                   \/ isna(bands.lower[timestamp])))
        => /\ position' = position
           /\ entry_time' = entry_time
           /\ entry_price' = entry_price
           /\ trades' = trades
           /\ equity' = equity
           /\ equity_values' = Append(equity_values, PrevEquity)]_vars

\* C2 witness: timestamp i had undefined bands and was passed while a
\* position opened earlier was held, after a trade had moved the equity.
C2_Witness ==
    /\ Passed(i)
    /\ isna(bands.mean[i])
    /\ position # FLAT
    /\ entry_time < i
    /\ equity # 0
    /\ equity_values[i] = equity

\* C3: FLAT, bands defined and value <= lower (equality included): the
\* engine is LONG afterwards with entry_time the timestamp and entry price
\* the value; no trade is appended and the equity is unchanged.
C3_EnterLong ==
    [][(DefinedNext /\ position = FLAT
            /\ ValueLeq(value, bands.lower[timestamp]))
        => /\ position' = LONG
           /\ entry_time' = timestamp
           /\ entry_price' = value
           /\ trades' = trades
           /\ equity' = equity
           /\ equity_values' = Append(equity_values, PrevEquity)]_vars

\* C3 witness: a long position was opened at timestamp i on a value equal
\* to the lower band, with a band of positive width.
C3_Witness ==
    /\ Passed(i)
    /\ position = LONG
    /\ entry_time = i
    /\ entry_price = spread[i].v
    /\ ValueLeq(spread[i].v, bands.lower[i])
    /\ ValueGeq(spread[i].v, bands.lower[i])
    /\ ~ValueGeq(spread[i].v, bands.upper[i])

\* the short entry of C4: SHORT afterwards, entered at this timestamp and value
ShortEntered ==
    /\ position' = SHORT
    /\ entry_time' = timestamp
    /\ entry_price' = value

\* C4 as claimed: FLAT, bands defined and value >= upper (equality
\* included): the engine is SHORT afterwards with entry_time the timestamp
\* and entry price the value, for every input, also when the value is
\* <= lower at the same time.
C4_Original ==
    [][(DefinedNext /\ position = FLAT
            /\ ValueGeq(value, bands.upper[timestamp]))
        => ShortEntered]_vars

\* C4 amended: FLAT, bands defined and value >= upper (equality included):
\* the engine is SHORT afterwards, entered at the timestamp and the value,
\* unless the value is also <= lower (zero deviation, or k <= 0); then the
\* long entry, tested first, wins and the engine is LONG.
C4_EnterShort ==
    [][(DefinedNext /\ position = FLAT
            /\ ValueGeq(value, bands.upper[timestamp]))
        => IF ValueLeq(value, bands.lower[timestamp])
           THEN position' = LONG /\ entry_time' = timestamp
                                 /\ entry_price' = value
           ELSE ShortEntered /\ trades' = trades /\ equity' = equity]_vars

\* C4 witness: a short position was opened at timestamp i on a value equal
\* to the upper band.
C4_Witness ==
    /\ Passed(i)
    /\ position = SHORT
    /\ entry_time = i
    /\ entry_price = spread[i].v
    /\ ValueGeq(spread[i].v, bands.upper[i])
    /\ ValueLeq(spread[i].v, bands.upper[i])

\* the trade a close at the next timestamp appends
ClosingTrade(side, pnl) ==
    [entry_time |-> entry_time, exit_time |-> timestamp, side |-> side,
     entry_spread |-> entry_price, exit_spread |-> value, pnl |-> pnl,
     fee |-> fee]

Closed(side, pnl) ==
    /\ trades' = Append(trades, ClosingTrade(side, pnl))
    /\ equity' = equity + pnl
    /\ equity_values' = Append(equity_values, PrevEquity + pnl)
    /\ position' = FLAT

Held ==
    /\ trades' = trades
    /\ equity' = equity
    /\ equity_values' = Append(equity_values, PrevEquity)
    /\ position' = position
    /\ entry_time' = entry_time
    /\ entry_price' = entry_price

\* C5: with defined bands a LONG position closes iff value >= mean, with
\* pnl = exit - entry - fee and side "long"; a SHORT position closes iff
\* value <= mean, with pnl = entry - exit - fee and side "short". A close
\* appends exactly one Trade carrying the entry recorded at entry and the
\* current timestamp and value as exit, adds the pnl to the equity and
\* leaves the engine FLAT; otherwise the position is held, nothing changed.
\* The entry an open position records is the timestamp it was opened at and
\* the spread value there.
C5_CloseOnReversion ==
    /\ [](position # FLAT =>
            Passed(entry_time) /\ entry_price = spread[entry_time].v)
    /\ [][(DefinedNext /\ position = LONG)
            => IF ValueGeq(value, bands.mean[timestamp])
               THEN Closed("long", value - entry_price - fee)
               ELSE Held]_vars
    /\ [][(DefinedNext /\ position = SHORT)
            => IF ValueLeq(value, bands.mean[timestamp])
               THEN Closed("short", entry_price - value - fee)
               ELSE Held]_vars

\* C5 witness: a short position opened earlier was closed at timestamp i,
\* at a loss, with a fee charged; the equity holds the pnl.
C5_Witness ==
    /\ Passed(i)
    /\ position = FLAT
    /\ Len(trades) = 1
    /\ trades[1].side = "short"
    /\ trades[1].exit_time = i
    /\ trades[1].entry_time < i
    /\ fee # 0
    /\ trades[1].pnl < 0
    /\ equity = trades[1].pnl

\* C6: entries so far minus len(trades) is 0 when FLAT and 1 when LONG or
\* SHORT: every trade is a completed entry/exit cycle and no entry follows
\* an entry without an exit between them.
C6_EntriesVsTrades ==
    entries - Len(trades) = (IF position = FLAT THEN 0 ELSE 1)

\* C6 witness: a second position is open after one completed cycle.
C6_Witness ==
    /\ entries = 2
    /\ Len(trades) = 1
    /\ position = SHORT

\* the sum of pnl of the trades of ts whose exit_time is at most t
RECURSIVE RealizedUpTo(_, _)
RealizedUpTo(ts, t) ==
    IF ts = <<>> THEN 0
    ELSE (IF ts[Len(ts)].exit_time <= t THEN ts[Len(ts)].pnl ELSE 0)
         + RealizedUpTo(SubSeq(ts, 1, Len(ts) - 1), t)

\* C7: the equity curve has one value per timestamp passed (one per spread
\* timestamp in the result), and its value at t is the sum of pnl of the
\* trades with exit_time <= t: an open position contributes nothing.
C7_EquityIsRealizedPnl ==
    /\ Len(equity_values) = i
    /\ \A t \in 1..i : equity_values[t] = RealizedUpTo(trades, t)
    /\ result.returned =>
         /\ DOMAIN result.equity_curve = DOMAIN spread
         /\ \A t \in DOMAIN spread :
                result.equity_curve[t] = RealizedUpTo(result.trades, t)

\* C7 witness: a returned run with two trades, the first with a pnl other
\* than 0 (so the equity differs across warm-up, flat and held timestamps).
C7_Witness ==
    /\ result.returned
    /\ Len(result.trades) = 2
    /\ result.trades[1].pnl # 0
    /\ result.trades[2].pnl # 0
    /\ result.equity_curve[Len(spread)]
         = result.trades[1].pnl + result.trades[2].pnl

\* a trade was closed at timestamp t
ExitAt(t) == \E j \in 1..Len(trades) : trades[j].exit_time = t

\* the equity before timestamp t
EquityBefore(t) == IF t = 1 THEN 0 ELSE equity_values[t - 1]

\* C8 as claimed: at a timestamp that is no trade exit the equity equals
\* the previous timestamp's equity, and at a trade exit it is not lower
\* than at the previous timestamp.
C8_Original ==
    \A t \in 1..Len(equity_values) :
        IF ExitAt(t) THEN equity_values[t] >= EquityBefore(t)
                     ELSE equity_values[t] = EquityBefore(t)

\* C8 amended: the equity changes only at trade exits: at a timestamp that
\* is no trade exit it equals the previous timestamp's equity, and at a
\* trade exit it is the previous equity plus that trade's pnl, which may be
\* negative (a losing trade lowers the equity).
C8_EquityMovesAtExits ==
    \A t \in 1..Len(equity_values) :
        IF ExitAt(t)
        THEN \E j \in 1..Len(trades) :
                /\ trades[j].exit_time = t
                /\ equity_values[t] = EquityBefore(t) + trades[j].pnl
        ELSE equity_values[t] = EquityBefore(t)

\* C8 witness: a short trade closed at a loss lowered the equity at its
\* exit, and the equity stayed there over the next timestamp.
C8_Witness ==
    /\ Passed(i) /\ i >= 2
    /\ ExitAt(i - 1) /\ ~ExitAt(i)
    /\ trades[Len(trades)].side = "short"
    /\ trades[Len(trades)].pnl < 0
    /\ equity_values[i - 1] < EquityBefore(i - 1)
    /\ equity_values[i] = equity_values[i - 1]

\* the stats of a run without trades and without equity moves
ZeroStats ==
    [num_trades |-> 0, win_rate |-> Ratio(0, 1), avg_win |-> Ratio(0, 1),
     avg_loss |-> Ratio(0, 1), total_pnl |-> 0, sharpe |-> SurdRatio(0, 1),
     max_drawdown |-> 0]

\* a result with zero trades, a flat equity curve and all-zero stats
EmptyOutcome(r) ==
    /\ r.returned
    /\ r.trades = <<>>
    /\ \A t \in DOMAIN r.equity_curve : r.equity_curve[t] = 0
    /\ DOMAIN r.equity_curve = DOMAIN spread
    /\ r.stats = ZeroStats

\* the runner (not a direct backtest_bollinger call) has returned
RunnerReturned == pc = "done" /\ ~result.returned

\* C9 as claimed: an empty spread given to backtest_bollinger, or an empty
\* windows list given to run_multi_window_backtest, yields a result with
\* zero trades, a flat equity curve and all-zero stats.
C9_Original ==
    /\ (spread = <<>> /\ result.returned) => EmptyOutcome(result)
    /\ (windows = <<>> /\ RunnerReturned) =>
          \E w \in DOMAIN results : EmptyOutcome(results[w])

\* C9 amended: neither input is an error, the call runs to its return. With
\* an empty spread every result (the one returned, or the one stored per
\* window) has zero trades, an empty (flat) equity curve and all-zero
\* stats. With an empty windows list the runner returns the empty dict: no
\* BacktestResult at all, so no trade, and no equity curve or stats either.
C9_EmptyInputs ==
    /\ (spread = <<>> /\ pc = "loop") => ENABLED Return
    /\ (spread = <<>> /\ result.returned) => EmptyOutcome(result)
    /\ spread = <<>> =>
         /\ DOMAIN results = {windows[j] : j \in 1..wi}
         /\ \A w \in DOMAIN results : EmptyOutcome(results[w])
    /\ (windows = <<>> /\ pc = "runner") => ENABLED RunnerReturn
    /\ (windows = <<>> /\ RunnerReturned) => results = EmptyDict

\* C9 witness: the runner has returned for an empty spread and two
\* windows, with a result stored under each.
C9_Witness ==
    /\ RunnerReturned
    /\ spread = <<>>
    /\ Len(windows) = 2
    /\ Cardinality(DOMAIN results) = 2
    /\ \A w \in DOMAIN results : results[w].window = w

\* C10: with a window larger than the number of points, mean, std, upper
\* and lower are undefined at every timestamp, the engine stays FLAT, and
\* the run has zero trades and an equity curve that is 0 everywhere.
C10_WindowTooLarge ==
    window > Len(spread) =>
        /\ \A t \in DOMAIN spread :
              /\ isna(bands.mean[t]) /\ isna(bands.std[t])
              /\ isna(bands.upper[t]) /\ isna(bands.lower[t])
        /\ position = FLAT
        /\ entries = 0
        /\ trades = <<>>
        /\ \A t \in 1..Len(equity_values) : equity_values[t] = 0
        /\ result.returned =>
              /\ result.trades = <<>>
              /\ result.stats.num_trades = 0
              /\ result.equity_curve = [t \in DOMAIN spread |-> 0]

\* C10 witness: a run over MaxLen points without NaN, with window one
\* larger, has returned; with the window clipped to the length its last
\* value would be at the lower band.
C10_Witness ==
    /\ result.returned
    /\ Len(spread) = MaxLen
    /\ window = MaxLen + 1
    /\ \A t \in DOMAIN spread : ~spread[t].nan
    /\ spread[1].v > spread[Len(spread)].v
    /\ Len(result.equity_curve) = MaxLen

----------------------------------------------------------------------------
(* Properties of run_multi_window_backtest and of the returned result *)

----------------------------------------------------------------------------
(* data.py: a call of _convert_currency *)

\* a ticker with an exchange suffix
EURUSD_X == <<"E", "U", "R", "U", "S", "D", "=", "X">>

\* tickers in upper and lower case, with a separator, with a suffix, too
\* short and empty
FxPairs ==
    {EURUSD, USDEUR, GBPUSD, EURUSD_X,
     <<"e", "u", "r", "u", "s", "d">>,
     <<"E", "U", "R", "/", "U", "S", "D">>,
     <<"E", "U", "R", "U", "S">>,
     <<>>}

ConvertInputs ==
    [prices : [Rows -> {Price(1), Price(3)}],
     source_currency : {USD, EUR, eur, GBP},
     base_currency : {USD, usd, EUR},
     fx_pair : FxPairs,
     fx_series : [Rows -> {Price(2), Price(4)}]]

InitFx ==
    /\ cv \in ConvertInputs
    /\ cpc = "parse"
    /\ fx_pair_parsed = Unset
    /\ converted = Unset
    /\ cerr = "none"
    /\ BacktestIdle /\ LoaderIdle /\ HedgeIdle

\* line 52, lines 34-40: the ticker has six letters
ParseFxPair ==
    /\ cpc = "parse"
    /\ parse_fx_pair(cv.fx_pair).err = "none"
    /\ fx_pair_parsed' = parse_fx_pair(cv.fx_pair)
    /\ cpc' = "convert"
    /\ UNCHANGED <<cv, converted, cerr>>
    /\ UNCHANGED <<backtestVars, loaderVars, hedgeVars>>

\* line 52, lines 36-39: _parse_fx_pair raises
ParseFxPairFails ==
    /\ cpc = "parse"
    /\ parse_fx_pair(cv.fx_pair).err # "none"
    /\ fx_pair_parsed' = parse_fx_pair(cv.fx_pair)
    /\ cpc' = "failed"
    /\ cerr' = parse_fx_pair(cv.fx_pair).err
    /\ UNCHANGED <<cv, converted>>
    /\ UNCHANGED <<backtestVars, loaderVars, hedgeVars>>

source_currency == upper(cv.source_currency)
base_currency == upper(cv.base_currency)
fx_base == fx_pair_parsed.value.base
fx_quote == fx_pair_parsed.value.quote

ConvertReturns(series) ==
    /\ converted' = series
    /\ cpc' = "done"
    /\ UNCHANGED <<cv, fx_pair_parsed, cerr>>
    /\ UNCHANGED <<backtestVars, loaderVars, hedgeVars>>

\* lines 53-54
ConvertSame ==
    /\ cpc = "convert"
    /\ source_currency = base_currency
    /\ ConvertReturns(cv.prices)

\* lines 56-57, 65-66
ConvertMultiply ==
    /\ cpc = "convert"
    /\ source_currency # base_currency
    /\ source_currency = fx_base /\ base_currency = fx_quote
    /\ ConvertReturns(Multiply(cv.prices, cv.fx_series))

\* lines 58-59, 65-66
ConvertDivide ==
    /\ cpc = "convert"
    /\ source_currency # base_currency
    /\ ~(source_currency = fx_base /\ base_currency = fx_quote)
    /\ source_currency = fx_quote /\ base_currency = fx_base
    /\ ConvertReturns(Divide(cv.prices, cv.fx_series))

\* lines 60-64
ConvertIncompatible ==
    /\ cpc = "convert"
    /\ source_currency # base_currency
    /\ ~(source_currency = fx_base /\ base_currency = fx_quote)
    /\ ~(source_currency = fx_quote /\ base_currency = fx_base)
    /\ cpc' = "failed"
    /\ cerr' = "ValueError"
    /\ UNCHANGED <<cv, fx_pair_parsed, converted>>
    /\ UNCHANGED <<backtestVars, loaderVars, hedgeVars>>

NextFx ==
    \/ ParseFxPair
    \/ ParseFxPairFails
    \/ ConvertSame
    \/ ConvertMultiply
    \/ ConvertDivide
    \/ ConvertIncompatible

SpecFx == InitFx /\ [][NextFx]_vars

----------------------------------------------------------------------------
(* hedge.py: estimate_hedge_ratio *)

\* a price series: a value, possibly missing, at each timestamp of its index
HedgeSeries == UNION {[D -> Values] : D \in SUBSET Rows}

HedgeInputs ==
    [series_a : HedgeSeries, series_b : HedgeSeries, add_intercept : BOOLEAN]

InitHedge ==
    /\ hg \in HedgeInputs
    /\ hpc = "align"
    /\ aligned = <<>>
    /\ hedge_result = Unset
    /\ herr = "none"
    /\ BacktestIdle /\ LoaderIdle /\ ConvertIdle

\* line 35: the timestamps both series have a value at
AlignedRows(a, b) ==
    {r \in (DOMAIN a) \cap (DOMAIN b) : ~a[r].nan /\ ~b[r].nan}

RECURSIVE SortedRows(_)
SortedRows(S) ==
    IF S = {} THEN <<>>
    ELSE <<Min(S)>> \o SortedRows(S \ {Min(S)})

\* lines 35-37: pd.concat(..., join="inner").dropna(), then y and x
inner_join(a, b) ==
    LET rows == SortedRows(AlignedRows(a, b))
    IN  [j \in 1..Len(rows) |-> [y |-> a[rows[j]].v, x |-> b[rows[j]].v]]

Align ==
    /\ hpc = "align"
    /\ aligned' = inner_join(hg.series_a, hg.series_b)
    /\ hpc' = "fit"
    /\ UNCHANGED <<hg, hedge_result, herr>>
    /\ UNCHANGED <<backtestVars, loaderVars, convertVars>>

nobs == Len(aligned)
exog == [j \in 1..nobs |-> aligned[j].x]
endog == [j \in 1..nobs |-> aligned[j].y]
SumXY == SumSeq([j \in 1..nobs |-> aligned[j].x * aligned[j].y])

\* sm.add_constant(exog) leaves exog alone when its column is a non-zero constant
HasConstant == nobs > 0 /\ \A j \in 1..nobs : exog[j] = exog[1] /\ exog[j] # 0

\* the least-squares slope through the origin; pinv of a zero column is zero
SlopeNoIntercept ==
    IF SumSqSeq(exog) = 0 THEN Ratio(0, 1) ELSE Ratio(SumXY, SumSqSeq(exog))

\* the least-squares line; with every x zero the minimum-norm solution
Determinant == nobs * SumSqSeq(exog) - SumSeq(exog) * SumSeq(exog)
SlopeIntercept ==
    IF Determinant = 0 THEN Ratio(0, 1)
    ELSE Ratio(nobs * SumXY - SumSeq(exog) * SumSeq(endog), Determinant)
Intercept ==
    IF Determinant = 0 THEN Ratio(SumSeq(endog), nobs)
    ELSE Ratio(SumSeq(endog) * SumSqSeq(exog) - SumSeq(exog) * SumXY, Determinant)

HedgeRatioResult(ratio, intercept) == [ratio |-> ratio, intercept |-> intercept]

HedgeReturns(r) ==
    /\ hedge_result' = r
    /\ hpc' = "done"
    /\ UNCHANGED <<hg, aligned, herr>>
    /\ UNCHANGED <<backtestVars, loaderVars, convertVars>>

HedgeFails(err) ==
    /\ herr' = err
    /\ hpc' = "failed"
    /\ UNCHANGED <<hg, aligned, hedge_result>>
    /\ UNCHANGED <<backtestVars, loaderVars, convertVars>>

\* hedge.py never counts the rows of aligned. What sm.OLS(...).fit() and
\* model.summary() do with fewer than 2 rows is left to the installed
\* statsmodels: the call either goes through or raises.
\* lines 45-50
FitNoIntercept ==
    /\ hpc = "fit"
    /\ ~hg.add_intercept
    /\ HedgeReturns(HedgeRatioResult(SlopeNoIntercept, Ratio(0, 1)))

\* lines 40-44, 50
FitIntercept ==
    /\ hpc = "fit"
    /\ hg.add_intercept
    /\ ~HasConstant
    /\ HedgeReturns(HedgeRatioResult(SlopeIntercept, Intercept))

\* lines 41-44: no constant column was added, so params has one entry
FitInterceptNoColumn ==
    /\ hpc = "fit"
    /\ hg.add_intercept
    /\ HasConstant
    /\ HedgeFails("IndexError")

\* lines 41-42, 46, 50: statsmodels raises on fewer than 2 rows
FitLibraryFails ==
    /\ hpc = "fit"
    /\ nobs < 2
    /\ hg.add_intercept => ~HasConstant
    /\ HedgeFails("ValueError")

NextHedge ==
    \/ Align
    \/ FitNoIntercept
    \/ FitIntercept
    \/ FitInterceptNoColumn
    \/ FitLibraryFails

SpecHedge == InitHedge /\ [][NextHedge]_vars

----------------------------------------------------------------------------
(* Properties of the trade log and the statistics *)

\* C17: whenever a backtest returns an empty trade list, for any spread
\* length and also with a position still open, every statistic is zero:
\* num_trades, win_rate, avg_win, avg_loss, total_pnl, sharpe (0.0, not NaN)
\* and max_drawdown.
C17_NoTradesZeroStats ==
    (result.returned /\ result.trades = <<>>) =>
        /\ result.stats = ZeroStats
        /\ ~result.stats.sharpe.nan

\* C17 witness: a run over several timestamps that opened a position, never
\* closed it and returned.
C17_Witness ==
    /\ result.returned
    /\ result.trades = <<>>
    /\ Len(spread) >= 3
    /\ position # FLAT
    /\ entry_time < Len(spread)

\* the trades of ts are chronological and do not overlap
Chronological(ts) ==
    \A j \in 1..Len(ts) :
        /\ ts[j].entry_time < ts[j].exit_time
        /\ j < Len(ts) => ts[j].exit_time < ts[j + 1].entry_time

\* ts is an initial part of us
IsPrefix(ts, us) == Len(ts) <= Len(us) /\ ts = SubSeq(us, 1, Len(ts))

\* C18: the trade list is chronological and non-overlapping (each trade is
\* entered strictly before it is exited, and exited strictly before the next
\* one is entered), and a step only ever appends to it: trades already in
\* the list are never modified or removed.
C18_TradesChronological ==
    /\ [](Chronological(trades)
          /\ (result.returned => Chronological(result.trades)))
    /\ [][/\ IsPrefix(trades, trades')
          /\ Len(trades') <= Len(trades) + 1
          /\ result'.returned => result'.trades = trades]_vars

\* C18 witness: a returned run with two trades, the second entered at the
\* timestamp right after the exit of the first.
C18_Witness ==
    /\ result.returned
    /\ Len(result.trades) = 2
    /\ result.trades[2].entry_time = result.trades[1].exit_time + 1
    /\ result.trades[1].entry_time + 1 = result.trades[1].exit_time

\* the spread before the entry of the open position
BeforeEntry == SubSeq(spread, 1, entry_time - 1)

\* the run over the spread up to the timestamp before the entry
RunBeforeEntry == backtest_bollinger(BeforeEntry, window, num_std, fee)

\* an equity curve held at its last value (0.0 if empty) up to length n
HeldFlat(eq, n) ==
    [t \in 1..n |-> IF t <= Len(eq) THEN eq[t]
                    ELSE IF eq = <<>> THEN 0 ELSE eq[Len(eq)]]

\* C19: a position still open when the spread ends is never closed: it
\* yields no Trade and its entry changes neither the equity curve nor any
\* statistic, so the result is that of the run up to the entry with the
\* equity held flat afterwards; the entries exceed the trades by at most one.
C19_OpenPositionIgnored ==
    /\ entries - Len(trades) \in {0, 1}
    /\ (result.returned /\ position # FLAT) =>
          /\ entries = Len(result.trades) + 1
          /\ \A j \in 1..Len(result.trades) :
                result.trades[j].exit_time < entry_time
          /\ result.trades = RunBeforeEntry.trades
          /\ result.equity_curve
               = HeldFlat(RunBeforeEntry.equity_curve, Len(spread))
          /\ result.stats
               = compute_stats(HeldFlat(RunBeforeEntry.equity_curve, Len(spread)),
                               RunBeforeEntry.trades)

\* C19 witness: a returned run with one closed trade of non-zero pnl and a
\* later position still open.
C19_Witness ==
    /\ result.returned
    /\ position # FLAT
    /\ Len(result.trades) = 1
    /\ result.trades[1].pnl # 0
    /\ entry_time < Len(spread)

\* the number of trades of ts whose pnl satisfies Test
CountPnl(ts, Test(_)) == Cardinality({j \in 1..Len(ts) : Test(ts[j].pnl)})
Positive(p) == p > 0
Negative(p) == p < 0

\* the sum of the pnl of the trades of ts
RECURSIVE TotalPnl(_)
TotalPnl(ts) == IF ts = <<>> THEN 0 ELSE Head(ts).pnl + TotalPnl(Tail(ts))

\* the drop of an equity curve at t below its highest value so far
DrawdownAt(eq, t) ==
    eq[t] - (CHOOSE m \in {eq[u] : u \in 1..t} : \A u \in 1..t : eq[u] <= m)

\* C20: for a run on a non-empty spread the stats agree with the trade log
\* and the equity curve: num_trades is the number of trades, total_pnl is
\* the sum of their pnl and the last equity value, win_rate is the share of
\* trades with pnl > 0 (a trade with pnl = 0 is neither a win nor a loss),
\* and max_drawdown is the lowest drawdown of the curve and never positive.
C20_StatsAgree ==
    (result.returned /\ spread # <<>>) =>
        LET ts == result.trades
            eq == result.equity_curve
            st == result.stats
        IN  /\ st.num_trades = Len(ts)
            /\ st.total_pnl = TotalPnl(ts)
            /\ st.total_pnl = eq[Len(eq)]
            /\ ts # <<>> => st.win_rate = Ratio(CountPnl(ts, Positive), Len(ts))
            /\ CountPnl(ts, Positive) > 0 => st.avg_win.den = CountPnl(ts, Positive)
            /\ CountPnl(ts, Negative) > 0 => st.avg_loss.den = CountPnl(ts, Negative)
            /\ CountPnl(ts, Positive) = 0 => st.avg_win = Ratio(0, 1)
            /\ CountPnl(ts, Negative) = 0 => st.avg_loss = Ratio(0, 1)
            /\ st.max_drawdown <= 0
            /\ \A t \in 1..Len(eq) : st.max_drawdown <= DrawdownAt(eq, t)
            /\ \E t \in 1..Len(eq) : st.max_drawdown = DrawdownAt(eq, t)

\* C20 witness: a returned run with a trade of pnl 0 and a losing trade, so
\* the curve has a drawdown.
C20_Witness ==
    /\ result.returned
    /\ \E j \in 1..Len(result.trades) : result.trades[j].pnl = 0
    /\ \E j \in 1..Len(result.trades) : result.trades[j].pnl < 0
    /\ result.stats.max_drawdown < 0

----------------------------------------------------------------------------
(* Properties of load_pair_data *)

LegIndex(l) == IF l = "A" THEN 0 ELSE 1
Differs(l) == upper(ld.currency[l]) # upper(ld.base_currency)
Resolved(l) == resolve_fx_ticker(ld.fx_tickers, LegTickers[l])
LegsFetched == series_dict # <<>>

\* fx_tickers is None, or a mapping with no entry for the leg's ticker
NoFxTicker(l) ==
    \/ ld.fx_tickers.kind = "none"
    \/ /\ ld.fx_tickers.kind = "map"
       /\ LegTickers[l] \notin DOMAIN ld.fx_tickers.m

\* C12: within one load_pair_data call fx_provider.fetch is invoked at most
\* once per distinct FX ticker; two legs converting through the same ticker
\* share one fetch, and no FX fetch is made for a leg in the base currency.
C12_FxFetchedOnce ==
    /\ \A j, k \in 1..Len(fx_fetches) :
          fx_fetches[j].ticker = fx_fetches[k].ticker => j = k
    /\ \A j \in 1..Len(fx_fetches) : Differs(fx_fetches[j].leg)
    /\ ( /\ lpc \in {"convert", "done"}
         /\ Differs("A") /\ Differs("B")
         /\ Resolved("A") = Resolved("B") )
       => /\ Len(fx_fetches) = 1
          /\ \E j \in 1..Len(series_dict) :
                /\ series_dict[j].key = FxKey(Resolved("A").t)
                /\ series_dict[j].series.name = fx_fetches[1].ticker

C12_Witness ==
    /\ lpc = "convert"
    /\ Differs("A") /\ Differs("B")
    /\ Resolved("A") = Resolved("B")
    /\ Len(fx_fetches) = 1
    /\ fx_cache = {Resolved("B").t}

\* C13: when a leg's currency differs, case-insensitively, from the base
\* currency and no FX ticker is resolved for it, load_pair_data never gets
\* past that leg and returns nothing: it ends on an error; when the leg is
\* leg A, the error is raised before any FX series is fetched.
C13_MissingFxFails ==
    \A l \in {"A", "B"} :
        (LegsFetched /\ Differs(l) /\ NoFxTicker(l))
        => /\ lpc \in {"legs", "failed"}
           /\ leg_idx <= LegIndex(l)
           /\ lpc = "failed" => lerr \in {"ValueError", "IOError"}
           /\ l = "A" => /\ fx_fetches = <<>>
                         /\ lpc = "failed" => lerr = "ValueError"

C13_Witness ==
    /\ lpc = "failed" /\ lerr = "ValueError"
    /\ ld.currency["A"] = EUR /\ ld.base_currency = usd
    /\ ld.fx_tickers.kind = "map" /\ DOMAIN ld.fx_tickers.m = {"BBB"}
    /\ fx_fetches = <<>>
----------------------------------------------------------------------------
(* Properties of _parse_fx_pair and _convert_currency *)

\* the alphabetic characters of a ticker, in order
Letters(ticker) == SelectSeq(ticker, isalpha)
LetterCount(ticker) == Cardinality({j \in 1..Len(ticker) : isalpha(ticker[j])})
Parsed == cpc # "parse"
FirstSix(ticker) ==
    Returned([base |-> upper(SubSeq(Letters(ticker), 1, 3)),
              quote |-> upper(SubSeq(Letters(ticker), 4, 6))])

\* C14 as stated: the ticker is parsed from its first six alphabetic
\* characters and fails only when it has fewer than six.
C14_Original ==
    Parsed =>
        IF LetterCount(cv.fx_pair) < 6
        THEN fx_pair_parsed.err = "ValueError"
        ELSE fx_pair_parsed = FirstSix(cv.fx_pair)

\* C14: _parse_fx_pair fails with an error unless the ticker has exactly six
\* alphabetic characters, fewer or more; with exactly six, the first three
\* upper-cased are the base and the next three upper-cased are the quote.
C14_ParseFxPair ==
    Parsed =>
        IF LetterCount(cv.fx_pair) # 6
        THEN /\ fx_pair_parsed.err = "ValueError"
             /\ cpc = "failed" /\ cerr = "ValueError"
        ELSE /\ fx_pair_parsed = FirstSix(cv.fx_pair)
             /\ Len(fx_pair_parsed.value.base) = 3
             /\ Len(fx_pair_parsed.value.quote) = 3

C14_Witness ==
    /\ cpc = "failed"
    /\ cv.fx_pair = EURUSD_X
    /\ LetterCount(cv.fx_pair) = 7
    /\ fx_pair_parsed.err = "ValueError"
\* the fetched prices of a leg and of its FX ticker over the joined index
JoinedLeg(l) == [r \in frame.index |-> LegPrices(l)[r]]
JoinedFx(l) == [r \in frame.index |-> Price(FxRate(Resolved(l).t))]

\* the FX pair of a leg, read as the claim reads it
PairBase(l) == upper(SubSeq(Letters(Resolved(l).t), 1, 3))
PairQuote(l) == upper(SubSeq(Letters(Resolved(l).t), 4, 6))
Multiplies(l) ==
    /\ upper(ld.currency[l]) = PairBase(l)
    /\ upper(ld.base_currency) = PairQuote(l)
Divides(l) ==
    /\ upper(ld.currency[l]) = PairQuote(l)
    /\ upper(ld.base_currency) = PairBase(l)

\* the column the claim expects for a leg
ExpectedColumn(l) ==
    IF ~Differs(l) THEN JoinedLeg(l)
    ELSE IF Multiplies(l) THEN Multiply(JoinedLeg(l), JoinedFx(l))
    ELSE Divide(JoinedLeg(l), JoinedFx(l))

Joined == frame # Unset
LoadEnded == lpc \in {"done", "failed"}

\* C15 as stated: once the series are joined, load_pair_data ends with each
\* leg multiplied by its FX series (leg currency = FX base, target = FX quote),
\* divided by it (leg currency = FX quote, target = FX base) or, when already
\* in the target currency, unmodified; any other combination is an error.
C15_Original ==
    (Joined /\ LoadEnded) =>
        IF \A l \in {"A", "B"} : Differs(l) => (Multiplies(l) \/ Divides(l))
        THEN /\ lpc = "done"
             /\ \A l \in {"A", "B"} : frame.data[<<l>>] = ExpectedColumn(l)
        ELSE lpc = "failed" /\ lerr = "ValueError"
----------------------------------------------------------------------------
(* Properties of estimate_hedge_ratio *)

HedgeEnded == hpc \in {"done", "failed"}

\* the exceptions estimate_hedge_ratio raises for want of data: hedge.py has
\* no raise statement
DataInsufficiencyErrors == {}

\* C16 as stated: with fewer than two aligned observations (none or one),
\* with or without the intercept term, estimate_hedge_ratio fails with a
\* data-insufficiency error and returns no ratio.
C16_Original ==
    (HedgeEnded /\ Cardinality(AlignedRows(hg.series_a, hg.series_b)) < 2)
    => /\ hpc = "failed"
       /\ hedge_result = Unset
       /\ herr \in DataInsufficiencyErrors

====
